---- MODULE Spec2Model ----
(***************************************************************************)
(* Verification model of kbrownnn/virtual-warehouse.                       *)
(*                                                                         *)
(*   SpecAgg : the frequency aggregation pass of heatmap.py                *)
(*             (item_locations, calculate_frquencies) over the dicts       *)
(*             locations / balance / orders handed to it.                  *)
(*   Spec    : the ontology store of data/data_model.py (Location, Item,   *)
(*             Inventory, Order, OrderedItem), its six SPARQL joins and    *)
(*             the tab connector of view_controller.py.                    *)
(*   SpecTabs    : the tab connectors over a loaded document.              *)
(*   SpecDestroy : the store with Item.destroy_all and Order.destroy_all.  *)
(*   SpecUnits   : utils.convert_dim as a function of its arguments.       *)
(*   SpecColor   : heatmap.get_heatmap_color as a function of its input.   *)
(*   SpecLoad    : ViewController.load and DataLoaderThread.run.           *)
(*   SpecSel     : ViewController.select_item and reset_selection.         *)
(***************************************************************************)
EXTENDS Integers, Sequences, FiniteSets, TLC

\* Python's None (search_one miss, absent dict entry, absent argument).
None == "None"

\* ---- bounds of the model ------------------------------------------------
\* calendar dates are 1..NumDates, compared by value
NumDates == 2
\* number of entries of the orders dict given to calculate_frquencies
MaxOrders == 2
\* number of calculate_frquencies calls on the same data
MaxPasses == 2
\* number of Inventory individuals in the ontology
MaxInv == 2
\* number of OrderedItem individuals in the ontology
MaxOI == 2

Dates == 1..NumDates
\* the has_date values of the Inventory individuals
InvDates == {1, 2}
Locs == {"L1", "L2"}
ItemIds == {"I1", "I2"}
OrderIds == {"O1", "O2"}
\* total_qty is an unvalidated int of the order sheet
Qtys == {-1, 1, 2}

VARIABLES
    \* ---- heatmap.py: arguments and locals of calculate_frquencies ----
    locations,      \* dict loc_id -> Location.freq
    balanceKeys,    \* insertion order of the keys (dates) of the balance dict
    balance,        \* date -> (loc_id -> inv.item_id | None when no entry)
    orders,         \* values of the orders dict in iteration order: [item_id, total_qty]
    pc,             \* position inside calculate_frquencies
    item_locs,      \* result of item_locations
    date,           \* the selected date
    k,              \* index of the order the outer loop is at
    pending,        \* locations the inner loop has still to credit
    aggErr,         \* exception that ended the pass, or None
    passes,         \* number of passes that have ended
    freqBefore,     \* locations at the start of the current pass
    \* ---- data_model.py: the ontology ----
    Location,       \* name -> has_freq
    Item,           \* set of names
    Inventory,      \* <<date, location_id, item_id>> -> [has_date, has_location, has_item]
    Order,          \* name -> [has_direction, has_country, has_delivery_date,
                    \*          has_s_ship_date, has_a_ship_date, has_line_num,
                    \*          has_ordered_items (set of OrderedItem names)]
    OrderedItem,    \* <<order_id, item_id>> -> has_item
    ItemUnit,       \* set of names (item_id-unit_lvl)
    \* ---- utils.py: one call of convert_dim ----
    conv_dim,       \* the dim argument
    conv_uom,       \* the uom argument
    converted,      \* what the call did: [called, err, value]
    \* ---- heatmap.py: one call of get_heatmap_color ----
    val_n,          \* the val argument, as val_n / ValDen
    color,          \* what the call did: [called, err, value]
    \* ---- view_controller.py: ViewController.load and DataLoaderThread ----
    loader,         \* position of DataLoaderThread.run, "none" without a thread
    progress_value, \* ViewController._progress_value
    storeAtLoad,    \* the ontology as it was when load was called
    loads,          \* number of load calls
    \* ---- view_controller.py: selection on the map ----
    selected_idxs,  \* ViewController.selected_idxs
    model_names,    \* idx -> names of the item of self.model at idx
    sidebar_selected, \* what _sidebar_model.set_selected was last given
    \* ---- view_controller.py ----
    checked,        \* tab -> _checked of its list model
    lastOp          \* the last handler that ran and how it ended

aggVars == <<locations, balanceKeys, balance, orders, pc, item_locs, date, k,
             pending, aggErr, passes, freqBefore>>
storeVars == <<Location, Item, Inventory, Order, OrderedItem, checked, lastOp>>
\* the variables outside the pass and outside the five classes and the tabs
unitVars == <<conv_dim, conv_uom, converted>>
\* the variables no method of the ontology classes touches
colorVars == <<val_n, color>>
loadVars == <<loader, progress_value, storeAtLoad, loads>>
selVars == <<selected_idxs, model_names, sidebar_selected>>
restVars == <<unitVars, colorVars, loadVars, selVars>>
otherVars == <<ItemUnit, restVars>>
vars == <<locations, balanceKeys, balance, orders, pc, item_locs, date, k,
          pending, aggErr, passes, freqBefore,
          Location, Item, Inventory, Order, OrderedItem, checked, lastOp,
          ItemUnit, conv_dim, conv_uom, converted, val_n, color,
          loader, progress_value, storeAtLoad, loads,
          selected_idxs, model_names, sidebar_selected>>

Range(s) == {s[i] : i \in DOMAIN s}

RECURSIVE SumOver(_, _)
SumOver(f, S) == IF S = {} THEN 0
                 ELSE LET x == CHOOSE y \in S : TRUE
                      IN f[x] + SumOver(f, S \ {x})

MaxOf(S) == CHOOSE m \in S : \A x \in S : x <= m

DistinctSeqs(S, n) ==
    {s \in UNION {[1..m -> S] : m \in 0..n} :
        \A i, j \in DOMAIN s : i # j => s[i] # s[j]}

\* =========================================================================
\* heatmap.py
\* =========================================================================

\* item_locations: for every date key, item_id -> the loc_ids whose inventory
\* entry holds that item. bl is keyed by loc_id, so the list built per item
\* has no repeated loc_id and is kept as a set.
item_locations(bal, keys) ==
    [d \in Range(keys) |->
        [i \in {bal[d][l] : l \in {x \in Locs : bal[d][x] # None}} |->
            {l \in Locs : bal[d][l] = i}]]

\* date = list(item_locs.keys())[-1]: the key inserted last
LastKey(keys) == keys[Len(keys)]

AggIdle ==
    /\ pc = "idle"
    /\ item_locs = <<>>
    /\ date = None
    /\ k = 0
    /\ pending = {}
    /\ aggErr = None
    /\ passes = 0

\* no call of convert_dim is under way
UnitsIdle ==
    /\ conv_dim = 0
    /\ conv_uom = None
    /\ converted = [called |-> FALSE, err |-> None, value |-> 0]

\* no call of get_heatmap_color is under way
ColorIdle ==
    /\ val_n = 0
    /\ color = [called |-> FALSE, err |-> None, value |-> <<>>]

\* the Location, Item, ItemUnit, Inventory, Order and OrderedItem individuals
\* with their property values
StoreNow ==
    [Location |-> Location, Item |-> Item, ItemUnit |-> ItemUnit,
     Inventory |-> Inventory, Order |-> Order, OrderedItem |-> OrderedItem]

\* no ViewController has been constructed: nothing is being loaded
LoadIdle ==
    /\ loader = "none"
    /\ progress_value = 1
    /\ storeAtLoad = [Location |-> <<>>, Item |-> {}, ItemUnit |-> {},
                      Inventory |-> <<>>, Order |-> <<>>, OrderedItem |-> <<>>]
    /\ loads = 0

\* __init__, lines 102-111: nothing selected, the map models empty
SelIdle ==
    /\ selected_idxs = {}
    /\ model_names = <<>>
    /\ sidebar_selected = {}

RestIdle ==
    /\ UnitsIdle
    /\ ColorIdle
    /\ LoadIdle
    /\ SelIdle

StoreEmpty ==
    /\ RestIdle
    /\ Location = <<>>
    /\ Item = {}
    /\ ItemUnit = {}
    /\ Inventory = <<>>
    /\ Order = <<>>
    /\ OrderedItem = <<>>
    /\ checked = [t \in {"location", "item", "order"} |-> {}]
    /\ lastOp = [op |-> "init"]

\* The dicts a parsed document hands to calculate_frquencies: every location
\* freshly created (freq 0), every date key of balance with at least one entry.
InitAgg ==
    /\ locations = [l \in Locs |-> 0]
    /\ freqBefore = locations
    /\ balanceKeys \in DistinctSeqs(Dates, NumDates)
    /\ balance \in [Dates -> [Locs -> ItemIds \cup {None}]]
    /\ \A d \in Dates :
          (d \in Range(balanceKeys)) <=> (\E l \in Locs : balance[d][l] # None)
    /\ orders \in UNION {[1..m -> [item_id : ItemIds, total_qty : Qtys]] : m \in 0..MaxOrders}
    /\ AggIdle
    /\ StoreEmpty

\* lines 14-16; an empty dict has no last key: IndexError
AggStart ==
    /\ pc = "idle"
    /\ freqBefore' = locations
    /\ item_locs' = item_locations(balance, balanceKeys)
    /\ balanceKeys # <<>>
    /\ date' = LastKey(balanceKeys)
    /\ k' = 1
    /\ pc' = "loop"
    /\ UNCHANGED <<locations, balanceKeys, balance, orders, pending, aggErr, passes>>
    /\ UNCHANGED <<storeVars, otherVars>>

AggIndexError ==
    /\ pc = "idle"
    /\ balanceKeys = <<>>
    /\ freqBefore' = locations
    /\ item_locs' = item_locations(balance, balanceKeys)
    /\ aggErr' = "IndexError"
    /\ pc' = "error"
    /\ passes' = passes + 1
    /\ UNCHANGED <<locations, balanceKeys, balance, orders, date, k, pending>>
    /\ UNCHANGED <<storeVars, otherVars>>

\* line 19, the lookup item_locs[date][o.item_id] that starts the inner loop
AggOrder ==
    /\ pc = "loop"
    /\ k <= Len(orders)
    /\ orders[k].item_id \in DOMAIN item_locs[date]
    /\ pending' = item_locs[date][orders[k].item_id]
    /\ pc' = "credit"
    /\ UNCHANGED <<locations, balanceKeys, balance, orders, item_locs, date, k,
                   aggErr, passes, freqBefore>>
    /\ UNCHANGED <<storeVars, otherVars>>

\* line 19 when the item has no entry on the selected date: KeyError
AggKeyError ==
    /\ pc = "loop"
    /\ k <= Len(orders)
    /\ orders[k].item_id \notin DOMAIN item_locs[date]
    /\ aggErr' = "KeyError"
    /\ pc' = "error"
    /\ passes' = passes + 1
    /\ UNCHANGED <<locations, balanceKeys, balance, orders, item_locs, date, k,
                   pending, freqBefore>>
    /\ UNCHANGED <<storeVars, otherVars>>

\* line 20, one iteration of the inner loop
AggCredit ==
    /\ pc = "credit"
    /\ pending # {}
    /\ LET loc == CHOOSE l \in pending : TRUE
       IN /\ locations' = [locations EXCEPT ![loc] = @ + orders[k].total_qty]
          /\ pending' = pending \ {loc}
    /\ UNCHANGED <<balanceKeys, balance, orders, pc, item_locs, date, k, aggErr,
                   passes, freqBefore>>
    /\ UNCHANGED <<storeVars, otherVars>>

\* the inner loop is exhausted: next order
AggNextOrder ==
    /\ pc = "credit"
    /\ pending = {}
    /\ k' = k + 1
    /\ pc' = "loop"
    /\ UNCHANGED <<locations, balanceKeys, balance, orders, item_locs, date,
                   pending, aggErr, passes, freqBefore>>
    /\ UNCHANGED <<storeVars, otherVars>>

\* the outer loop is exhausted: the function returns
AggReturn ==
    /\ pc = "loop"
    /\ k > Len(orders)
    /\ pc' = "done"
    /\ passes' = passes + 1
    /\ UNCHANGED <<locations, balanceKeys, balance, orders, item_locs, date, k,
                   pending, aggErr, freqBefore>>
    /\ UNCHANGED <<storeVars, otherVars>>

\* a second call that first put every freq back to 0
AggAgain_reset ==
    /\ pc \in {"done", "error"}
    /\ passes < MaxPasses
    /\ pc' = "idle"
    /\ item_locs' = <<>>
    /\ date' = None
    /\ k' = 0
    /\ aggErr' = None
    /\ locations' = [l \in Locs |-> 0]
    /\ UNCHANGED <<balanceKeys, balance, orders, pending, passes, freqBefore>>
    /\ UNCHANGED <<storeVars, otherVars>>

\* calculate_frquencies is called again on the same dicts, after a pass that
\* returned or one that an exception ended; the locals are fresh, the freq
\* values are whatever the earlier pass left
AggAgain ==
    /\ pc \in {"done", "error"}
    /\ passes < MaxPasses
    /\ pc' = "idle"
    /\ item_locs' = <<>>
    /\ date' = None
    /\ k' = 0
    /\ aggErr' = None
    /\ UNCHANGED <<locations, balanceKeys, balance, orders, pending,
                   passes, freqBefore>>
    /\ UNCHANGED <<storeVars, otherVars>>

NextAgg ==
    \/ AggStart
    \/ AggIndexError
    \/ AggOrder
    \/ AggKeyError
    \/ AggCredit
    \/ AggNextOrder
    \/ AggReturn
    \/ AggAgain

SpecAgg == InitAgg /\ [][NextAgg]_vars

\* ---- what the spec asks of the pass ------------------------------------

\* the orders whose item has an entry at location l on date d
OrdersAt(l, d) == {i \in DOMAIN orders : balance[d][l] = orders[i].item_id}

\* sum of total_qty over the ordered items present at l on date d
Credit(l, d) ==
    SumOver([i \in DOMAIN orders |-> orders[i].total_qty], OrdersAt(l, d))

FirstPassEnded == passes = 1 /\ pc \in {"done", "error"}

\* C1: after one aggregation pass started with every freq at 0, each
\* location's freq is the sum of total_qty over the ordered items whose item is
\* present at that location on the selected snapshot date.
C1_FreqIsSumOfTotalQty ==
    (FirstPassEnded /\ balanceKeys # <<>>) =>
        \A l \in Locs : locations[l] = Credit(l, LastKey(balanceKeys))

\* C1 restricted to passes that return: the sum is right whenever no
\* exception ended the pass.
C1_FreqIsSumWhenReturned ==
    (passes = 1 /\ pc = "done") =>
        \A l \in Locs : locations[l] = Credit(l, LastKey(balanceKeys))

\* C2: the snapshot date the pass uses is the most recent date among the
\* Inventory records by calendar value, whatever the insertion order.
C2_SnapshotIsMostRecentDate ==
    (pc \in {"loop", "credit", "done"}) => date = MaxOf(Range(balanceKeys))

\* C3: an ordered item whose item has no Inventory record on the selected date
\* raises no error and credits nothing; the pass processes every remaining
\* order and returns.
C3_MissingItemIsSkipped ==
    (FirstPassEnded /\ balanceKeys # <<>>) =>
        /\ pc = "done"
        /\ aggErr = None
        /\ k = Len(orders) + 1

\* C4: with no Inventory record at all the pass is a no-op: it ends without an
\* error and every freq is what it was.
C4_EmptyBalanceIsNoOp ==
    (FirstPassEnded /\ balanceKeys = <<>>) =>
        /\ pc = "done"
        /\ aggErr = None
        /\ locations = freqBefore

\* C5: freq starts at 0 and no step of a pass lowers any location's freq,
\* for every total_qty the order data may carry.
C5_FreqNeverDecreases ==
    [][\A l \in Locs : locations'[l] >= locations[l]]_vars

\* =========================================================================
\* data_model.py: the ontology
\* =========================================================================

\* f with key bound to val (a new individual, or new property values of an
\* existing one)
Put(f, key, val) == [x \in DOMAIN f \cup {key} |-> IF x = key THEN val ELSE f[x]]

\* onto.search_one(iri=BASE_IRI#name): the entity of that name, or None
search_one(name) ==
    IF name \in DOMAIN Location \/ name \in Item \/ name \in DOMAIN Order
    THEN name ELSE None

\* utils.py: dim_factors, factors in thousandths
dim_factors == [u \in {"m", "meters", "dm", "cm", "mm"} |->
    CASE u = "m" -> 1000 [] u = "meters" -> 1000 [] u = "dm" -> 100
      [] u = "cm" -> 10 [] u = "mm" -> 1]

\* str.lower on the unit spellings used here
lower(u) == CASE u = "M" -> "m" [] u = "CM" -> "cm" [] u = "MM" -> "mm"
              [] u = "DM" -> "dm" [] u = "Meters" -> "meters"
              [] u = "METERS" -> "meters" [] u = "Dm" -> "dm" [] u = "Cm" -> "cm"
              [] u = "Mm" -> "mm" [] u = "IN" -> "in" [] u = "KM" -> "km"
              [] OTHER -> u

\* the freq argument of Location.create: left to its default
FreqArgs == {0}

DimUoms == {None, "m", "CM", "in"}

\* utils.py convert_dim without the lower() of line 20
convert_dim_cased(d, u) ==
    IF u # None /\ u # ""
    THEN IF u \in DOMAIN dim_factors
         THEN [called |-> TRUE, err |-> None, value |-> d * dim_factors[u]]
         ELSE [called |-> TRUE, err |-> "KeyError", value |-> 0]
    ELSE [called |-> TRUE, err |-> None, value |-> d * 1000]

\* utils.py convert_dim. Lengths that come back are counted in thousandths of
\* a metre, so dim handed back as it came (no uom, or an empty one) is
\* dim * 1000. dim_factors[...] on an unknown key raises KeyError.
convert_dim(d, u) ==
    IF u # None /\ u # ""
    THEN IF lower(u) \in DOMAIN dim_factors
         THEN [called |-> TRUE, err |-> None, value |-> d * dim_factors[lower(u)]]
         ELSE [called |-> TRUE, err |-> "KeyError", value |-> 0]
    ELSE [called |-> TRUE, err |-> None, value |-> d * 1000]

\* whether convert_dim returns for this uom
convert_dim_ok(u) == convert_dim(0, u).err = None

\* utils.py convert_date for the date strings used here: "" is absent, a
\* string of another format raises ValueError
DateStrs == {"01.01.2023", "02.01.2023", "", "2023-01-01"}

convert_date(s) ==
    CASE s = "" -> [err |-> None, absent |-> TRUE, value |-> 0]
      [] s = "01.01.2023" -> [err |-> None, absent |-> FALSE, value |-> 1]
      [] s = "02.01.2023" -> [err |-> None, absent |-> FALSE, value |-> 2]
      [] OTHER -> [err |-> "ValueError", absent |-> TRUE, value |-> 0]

Tabs == {"location", "item", "order"}

\* Init: the ontology right after the module is imported, no list checked
Init ==
    /\ StoreEmpty
    /\ locations = <<>>
    /\ freqBefore = <<>>
    /\ balanceKeys = <<>>
    /\ balance = <<>>
    /\ orders = <<>>
    /\ AggIdle

\* the tab models list the entities of the ontology
Objects(tab) == CASE tab = "location" -> DOMAIN Location
                  [] tab = "item" -> Item
                  [] tab = "order" -> DOMAIN Order

\* Location.create: freq defaults to 0; an unknown dim_uom raises KeyError in
\* convert_dim before the individual is made
LocationCreate ==
    \E id \in Locs, uom \in DimUoms, freq \in FreqArgs :
        /\ id \notin DOMAIN Location
        /\ IF convert_dim_ok(uom)
           THEN /\ Location' = Put(Location, id, freq)
                /\ lastOp' = [op |-> "Location.create", err |-> None]
           ELSE /\ Location' = Location
                /\ lastOp' = [op |-> "Location.create", err |-> "KeyError"]
        /\ UNCHANGED <<Item, Inventory, Order, OrderedItem, checked>>
        /\ UNCHANGED <<aggVars, otherVars>>

\* Item.create
ItemCreate ==
    \E id \in ItemIds :
        /\ id \notin Item
        /\ Item' = Item \cup {id}
        /\ lastOp' = [op |-> "Item.create", err |-> None]
        /\ UNCHANGED <<Location, Inventory, Order, OrderedItem, checked>>
        /\ UNCHANGED <<aggVars, otherVars>>

\* Inventory.create, lines 160-167: the two dates are converted, item and
\* location are looked up (None on a miss, never checked), and the name is
\* formatted with date.strftime on the str argument, which raises
\* AttributeError before cls(...) is reached.
Inventory_create_error(date_s, location_id, item_id) ==
    IF convert_date(date_s).err = "ValueError" THEN "ValueError" ELSE "AttributeError"

Inventory_create(date_s, location_id, item_id) ==
    /\ lastOp' = [op |-> "Inventory.create",
                  err |-> Inventory_create_error(date_s, location_id, item_id)]
    /\ UNCHANGED <<Location, Item, Inventory, Order, OrderedItem, checked>>
    /\ UNCHANGED <<aggVars, otherVars>>

InventoryCreate ==
    \E date_s \in DateStrs, location_id \in Locs, item_id \in ItemIds :
        Inventory_create(date_s, location_id, item_id)

\* An Inventory individual made by the class constructor with its date, its
\* Location and its Item (the properties of lines 580-585 and 681-685).
InventoryInstance ==
    \E d \in InvDates, loc \in DOMAIN Location, item \in Item :
        /\ <<d, loc, item>> \notin DOMAIN Inventory
        /\ Cardinality(DOMAIN Inventory) < MaxInv
        /\ Inventory' = Put(Inventory, <<d, loc, item>>,
                            [has_date |-> d, has_location |-> loc, has_item |-> item])
        /\ lastOp' = [op |-> "Inventory", err |-> None]
        /\ UNCHANGED <<Location, Item, Order, OrderedItem, checked>>
        /\ UNCHANGED <<aggVars, otherVars>>

\* the arguments of Order.create that no query reads
Directions == {"outbound"}

Countries == {"CZ"}

OrderDateStrs == {"01.01.2023"}

LineNums == {1}

\* Order.create for a new order id: one OrderedItem order_id-item_id whose
\* has_item is whatever search_one found
OrderCreate ==
    \E id \in OrderIds, item_id \in ItemIds, direction \in Directions,
       country_id \in Countries, delivery_date \in OrderDateStrs,
       s_ship_date \in OrderDateStrs, a_ship_date \in OrderDateStrs,
       line_num \in LineNums :
        /\ id \notin DOMAIN Order
        /\ Cardinality(DOMAIN OrderedItem) < MaxOI
        /\ OrderedItem' = Put(OrderedItem, <<id, item_id>>, search_one(item_id))
        /\ Order' = Put(Order, id,
                        [has_direction |-> direction,
                         has_country |-> country_id,
                         has_delivery_date |-> convert_date(delivery_date).value,
                         has_s_ship_date |-> convert_date(s_ship_date).value,
                         has_a_ship_date |-> convert_date(a_ship_date).value,
                         has_line_num |-> line_num,
                         has_ordered_items |-> {<<id, item_id>>}])
        /\ lastOp' = [op |-> "Order.create", err |-> None]
        /\ UNCHANGED <<Location, Item, Inventory, checked>>
        /\ UNCHANGED <<aggVars, otherVars>>

\* Order.add_item on the order id: the OrderedItem named order_id-item_id is
\* made, or handed back when it exists, with has_item set to what search_one
\* found, and appended to has_ordered_items
Order_add_item(id, item_id) ==
    /\ id \in DOMAIN Order
    /\ <<id, item_id>> \in DOMAIN OrderedItem
          \/ Cardinality(DOMAIN OrderedItem) < MaxOI
    /\ OrderedItem' = Put(OrderedItem, <<id, item_id>>, search_one(item_id))
    /\ Order' = [Order EXCEPT ![id].has_ordered_items = @ \cup {<<id, item_id>>}]
    /\ lastOp' = [op |-> "Order.add_item", err |-> None]
    /\ UNCHANGED <<Location, Item, Inventory, checked>>
    /\ UNCHANGED <<aggVars, otherVars>>

OrderAddItem ==
    \E id \in OrderIds, item_id \in ItemIds : Order_add_item(id, item_id)

\* cls.instances() of the classes kept as maps
Location_instances == DOMAIN Location

Inventory_instances == DOMAIN Inventory

Order_instances == DOMAIN Order

OrderedItem_instances == DOMAIN OrderedItem

\* the names of the packaging units: item_id-unit_lvl
UnitIds == {"I1-1", "I2-1"}

\* ItemUnit.create: convert_dim on the three dimensions raises KeyError for an
\* unknown dim_uom before the individual is made
ItemUnitCreate ==
    \E id \in UnitIds, dim_uom \in DimUoms :
        /\ id \notin ItemUnit
        /\ IF convert_dim_ok(dim_uom)
           THEN /\ ItemUnit' = ItemUnit \cup {id}
                /\ lastOp' = [op |-> "ItemUnit.create", err |-> None]
           ELSE /\ ItemUnit' = ItemUnit
                /\ lastOp' = [op |-> "ItemUnit.create", err |-> "KeyError"]
        /\ UNCHANGED <<Location, Item, Inventory, Order, OrderedItem, checked>>
        /\ UNCHANGED <<aggVars, restVars>>

\* destroy_entity on every name of gone: the individuals go, and so does every
\* triple that had one of them as its object
without_refs(inv, gone) ==
    [x \in DOMAIN inv |->
        [has_date |-> inv[x].has_date,
         has_location |-> IF inv[x].has_location \in gone THEN None
                          ELSE inv[x].has_location,
         has_item |-> IF inv[x].has_item \in gone THEN None ELSE inv[x].has_item]]

\* Item.destroy_all without its second line
Item_destroy_all_only ==
    /\ Item' = {}
    /\ Inventory' = without_refs(Inventory, Item)
    /\ OrderedItem' = [x \in DOMAIN OrderedItem |->
                          IF OrderedItem[x] \in Item THEN None ELSE OrderedItem[x]]
    /\ lastOp' = [op |-> "Item.destroy_all", err |-> None,
                  destroyed |-> Cardinality(Item) + Cardinality(ItemUnit)]
    /\ UNCHANGED <<ItemUnit, Location, Order, checked>>
    /\ UNCHANGED <<aggVars, restVars>>

\* Item.destroy_all: destroy_all(cls), then destroy_all(ItemUnit)
Item_destroy_all ==
    /\ Item' = {}
    /\ ItemUnit' = {}
    /\ Inventory' = without_refs(Inventory, Item)
    /\ OrderedItem' = [x \in DOMAIN OrderedItem |->
                          IF OrderedItem[x] \in Item THEN None ELSE OrderedItem[x]]
    /\ lastOp' = [op |-> "Item.destroy_all", err |-> None,
                  destroyed |-> Cardinality(Item) + Cardinality(ItemUnit)]
    /\ UNCHANGED <<Location, Order, checked>>
    /\ UNCHANGED <<aggVars, restVars>>

\* Order.destroy_all: destroy_all(cls), then destroy_all(OrderedItem)
Order_destroy_all ==
    /\ Order' = <<>>
    /\ OrderedItem' = <<>>
    /\ lastOp' = [op |-> "Order.destroy_all", err |-> None,
                  destroyed |-> Cardinality(DOMAIN Order) + Cardinality(DOMAIN OrderedItem)]
    /\ UNCHANGED <<Location, Item, ItemUnit, Inventory, checked>>
    /\ UNCHANGED <<aggVars, restVars>>

\* ---- the triples the SPARQL patterns match ------------------------------

\* (s, has_item, o): Inventory and OrderedItem individuals share the property
has_item(s, o) ==
    /\ o # None
    /\ \/ s \in Inventory_instances /\ Inventory[s].has_item = o
       \/ s \in OrderedItem_instances /\ OrderedItem[s] = o

\* (s, has_location, o)
has_location(s, o) ==
    /\ o # None
    /\ s \in Inventory_instances /\ Inventory[s].has_location = o

\* (s, has_ordered_items, o)
has_ordered_items(s, o) ==
    s \in Order_instances /\ o \in Order[s].has_ordered_items

\* the individuals a variable in subject position of has_item can bind to
Individuals == Inventory_instances \cup OrderedItem_instances

\* SELECT ?x over the solutions: the multiset of the values of ?x
\* (value -> number of solutions that bind ?x to it)
Project(sols, pos) ==
    [t \in {s[pos] : s \in sols} |-> Cardinality({s \in sols : s[pos] = t})]

\* SELECT without DISTINCT: the rows as the join produced them
Distinct_dropped(rows) == rows

\* SELECT DISTINCT: every value once
Distinct(rows) == [t \in DOMAIN rows |-> 1]

\* the names in a query result
Names(res) == DOMAIN res

\* Item.get_by_locations restricted to the inventories of the latest date
Item_get_by_locations_rows_latest(locs) ==
    Project({s \in locs \X Individuals \X Item :
                /\ has_location(s[2], s[1])
                /\ has_item(s[2], s[3])
                /\ \A inv \in Inventory_instances :
                      Inventory[inv].has_date <= Inventory[s[2]].has_date}, 3)

\* Item.get_by_locations: VALUES ?loc . ?inv has_location ?loc . ?inv has_item ?item
Item_get_by_locations_rows(locs) ==
    Project({s \in locs \X Individuals \X Item :
                has_location(s[2], s[1]) /\ has_item(s[2], s[3])}, 3)

Item_get_by_locations(locs) == Distinct(Item_get_by_locations_rows(locs))

\* Item.get_by_orders: VALUES ?ord . ?ord has_ordered_items ?oi . ?oi has_item ?item
Item_get_by_orders_rows(ords) ==
    Project({s \in ords \X OrderedItem_instances \X Item :
                has_ordered_items(s[1], s[2]) /\ has_item(s[2], s[3])}, 3)

Item_get_by_orders(ords) == Distinct(Item_get_by_orders_rows(ords))

\* Location.get_by_orders: VALUES ?ord . ?ord has_ordered_items ?oi .
\* ?oi has_item ?item . ?inv has_item ?item . ?inv has_location ?loc
Location_get_by_orders_rows(ords) ==
    LET i2i3 == {s \in ords \X OrderedItem_instances \X Item :
                    has_ordered_items(s[1], s[2]) /\ has_item(s[2], s[3])}
        i5 == {s \in Individuals \X Location_instances : has_location(s[1], s[2])}
    IN Project({<<s[1][1], s[1][2], s[1][3], s[2][1], s[2][2]>> :
                    s \in {j \in i2i3 \X i5 : has_item(j[2][1], j[1][3])}}, 5)

Location_get_by_orders(ords) == Distinct(Location_get_by_orders_rows(ords))

\* Location.get_by_items: VALUES ?item . ?inv has_item ?item . ?inv has_location ?loc
Location_get_by_items_rows(its) ==
    Project({s \in its \X Individuals \X Location_instances :
                has_item(s[2], s[1]) /\ has_location(s[2], s[3])}, 3)

Location_get_by_items(its) == Distinct(Location_get_by_items_rows(its))

\* Order.get_by_items: VALUES ?item . ?oi has_item ?item . ?ord has_ordered_items ?oi
Order_get_by_items_rows(its) ==
    Project({s \in its \X Individuals \X Order_instances :
                has_item(s[2], s[1]) /\ has_ordered_items(s[3], s[2])}, 3)

Order_get_by_items(its) == Distinct(Order_get_by_items_rows(its))

\* Order.get_by_locations restricted to the inventories of the latest date
Order_get_by_locations_rows_latest(locs) ==
    LET i2i3 == {s \in locs \X Inventory_instances \X Item :
                    /\ has_location(s[2], s[1])
                    /\ has_item(s[2], s[3])
                    /\ \A inv \in Inventory_instances :
                          Inventory[inv].has_date <= Inventory[s[2]].has_date}
        i5 == {s \in Order_instances \X Individuals : has_ordered_items(s[1], s[2])}
    IN Project({<<s[1][1], s[1][2], s[1][3], s[2][2], s[2][1]>> :
                    s \in {j \in i2i3 \X i5 : has_item(j[2][2], j[1][3])}}, 5)

\* Order.get_by_locations: VALUES ?loc . ?inv has_location ?loc .
\* ?inv has_item ?item . ?oi has_item ?item . ?ord has_ordered_items ?oi
Order_get_by_locations_rows(locs) ==
    LET i2i3 == {s \in locs \X Individuals \X Item :
                    has_location(s[2], s[1]) /\ has_item(s[2], s[3])}
        i5 == {s \in Order_instances \X Individuals : has_ordered_items(s[1], s[2])}
    IN Project({<<s[1][1], s[1][2], s[1][3], s[2][2], s[2][1]>> :
                    s \in {j \in i2i3 \X i5 : has_item(j[2][2], j[1][3])}}, 5)

Order_get_by_locations(locs) == Distinct(Order_get_by_locations_rows(locs))

\* =========================================================================
\* view_controller.py: the tab connector
\* =========================================================================

\* the static method a slot hands to _connect_tabs
connector(q, objs) ==
    CASE q = "Item.get_by_locations" -> Item_get_by_locations(objs)
      [] q = "Item.get_by_orders" -> Item_get_by_orders(objs)
      [] q = "Order.get_by_items" -> Order_get_by_items(objs)
      [] q = "Order.get_by_locations" -> Order_get_by_locations(objs)
      [] q = "Location.get_by_orders" -> Location_get_by_orders(objs)
      [] q = "Location.get_by_items" -> Location_get_by_items(objs)

\* the list model's set_checked(names): the checked set becomes names
set_checked(tab, names) == [checked EXCEPT ![tab] = names]

\* a row of a tab list is checked or unchecked by the user
TabCheck ==
    \E tab \in Tabs :
        \E name \in Objects(tab) :
            /\ checked' = [checked EXCEPT ![tab] =
                              IF name \in @ THEN @ \ {name} ELSE @ \cup {name}]
            /\ lastOp' = [op |-> "check", err |-> None]
            /\ UNCHANGED <<Location, Item, Inventory, Order, OrderedItem>>
            /\ UNCHANGED <<aggVars, otherVars>>

\* _connect_tabs without its else branch: an empty source leaves the
\* destination as it was
connect_tabs_keep(src, dst, q) ==
    /\ IF checked[src] # {}
       THEN checked' = set_checked(dst, Names(connector(q, checked[src])))
       ELSE checked' = checked
    /\ lastOp' = [op |-> "_connect_tabs", src |-> src, dst |-> dst, err |-> None,
                  dst_had_checked |-> checked[dst] # {}]
    /\ UNCHANGED <<Location, Item, Inventory, Order, OrderedItem>>
    /\ UNCHANGED <<aggVars, otherVars>>

\* ViewController._connect_tabs
connect_tabs(src, dst, q) ==
    /\ IF checked[src] # {}
       THEN checked' = set_checked(dst, Names(connector(q, checked[src])))
       ELSE checked' = set_checked(dst, {})
    /\ lastOp' = [op |-> "_connect_tabs", src |-> src, dst |-> dst, err |-> None,
                  dst_had_checked |-> checked[dst] # {}]
    /\ UNCHANGED <<Location, Item, Inventory, Order, OrderedItem>>
    /\ UNCHANGED <<aggVars, otherVars>>

checked_locations_to_items == connect_tabs("location", "item", "Item.get_by_locations")

checked_orders_to_items == connect_tabs("order", "item", "Item.get_by_orders")

checked_items_to_orders == connect_tabs("item", "order", "Order.get_by_items")

checked_locations_to_orders == connect_tabs("location", "order", "Order.get_by_locations")

checked_orders_to_locations == connect_tabs("order", "location", "Location.get_by_orders")

checked_items_to_locations == connect_tabs("item", "location", "Location.get_by_items")

Next ==
    \/ LocationCreate
    \/ ItemCreate
    \/ InventoryCreate
    \/ InventoryInstance
    \/ OrderCreate
    \/ OrderAddItem

Spec == Init /\ [][Next]_vars

\* The tab lists after a document with one inventory snapshot is loaded: every
\* location and item of the document exists, and the inventory and order rows
\* refer to them.
InitTabs ==
    /\ Location = [l \in Locs |-> 0]
    /\ Item = ItemIds
    /\ \E S \in SUBSET ({1} \X Locs \X ItemIds) :
          /\ Cardinality(S) <= MaxInv
          /\ Inventory = [inv \in S |->
                [has_date |-> inv[1], has_location |-> inv[2], has_item |-> inv[3]]]
    /\ \E T \in SUBSET (OrderIds \X ItemIds) :
          /\ Cardinality(T) <= MaxOI
          /\ OrderedItem = [oi \in T |-> oi[2]]
          /\ Order = [o \in {oi[1] : oi \in T} |->
                [has_direction |-> "outbound",
                 has_country |-> "CZ",
                 has_delivery_date |-> 1,
                 has_s_ship_date |-> 1,
                 has_a_ship_date |-> 1,
                 has_line_num |-> 1,
                 has_ordered_items |-> {oi \in T : oi[1] = o}]]
    /\ ItemUnit = {}
    /\ RestIdle
    /\ checked = [t \in Tabs |-> {}]
    /\ lastOp = [op |-> "init"]
    /\ locations = <<>>
    /\ freqBefore = <<>>
    /\ balanceKeys = <<>>
    /\ balance = <<>>
    /\ orders = <<>>
    /\ AggIdle

NextTabs ==
    \/ TabCheck
    \/ checked_locations_to_items
    \/ checked_orders_to_items
    \/ checked_items_to_orders
    \/ checked_locations_to_orders
    \/ checked_orders_to_locations
    \/ checked_items_to_locations

SpecTabs == InitTabs /\ [][NextTabs]_vars

\* ---- what the spec asks of the store and the queries --------------------

\* every target the join reaches is in the result exactly once
ExactlyOnce(rows, res) ==
    /\ DOMAIN res = DOMAIN rows
    /\ \A t \in DOMAIN res : res[t] = 1

NonEmptySubsets(S) == SUBSET S \ {{}}

\* C6: for each of the six query operations and every non-empty input, a
\* target reachable through several Inventory/OrderedItem paths appears
\* exactly once in the result.
C6_TargetsAppearExactlyOnce ==
    /\ \A locs \in NonEmptySubsets(Location_instances) :
          /\ ExactlyOnce(Item_get_by_locations_rows(locs), Item_get_by_locations(locs))
          /\ ExactlyOnce(Order_get_by_locations_rows(locs), Order_get_by_locations(locs))
    /\ \A ords \in NonEmptySubsets(Order_instances) :
          /\ ExactlyOnce(Item_get_by_orders_rows(ords), Item_get_by_orders(ords))
          /\ ExactlyOnce(Location_get_by_orders_rows(ords), Location_get_by_orders(ords))
    /\ \A its \in NonEmptySubsets(Item) :
          /\ ExactlyOnce(Location_get_by_items_rows(its), Location_get_by_items(its))
          /\ ExactlyOnce(Order_get_by_items_rows(its), Order_get_by_items(its))

\* a location reached from one order over two different paths, returned once
C6_Witness ==
    \E o \in Order_instances : \E l \in Location_instances :
        /\ l \in DOMAIN Location_get_by_orders_rows({o})
        /\ Location_get_by_orders_rows({o})[l] >= 2
        /\ Location_get_by_orders({o})[l] = 1

\* C7: Item.get_by_locations(locs) is exactly the set of items with at least
\* one Inventory record at a location of locs, whatever the record's date.
C7_ItemsForLocations ==
    \A locs \in SUBSET Location_instances :
        Names(Item_get_by_locations(locs)) =
            {i \in Item : \E inv \in Inventory_instances :
                /\ Inventory[inv].has_location \in locs
                /\ Inventory[inv].has_item = i}

\* the record (L1, I1) is older than another record and {L1} still gives {I1}
C7_Witness ==
    /\ <<1, "L1", "I1">> \in Inventory_instances
    /\ \E inv \in Inventory_instances : Inventory[inv].has_date > 1
    /\ Names(Item_get_by_locations({"L1"})) = {"I1"}

\* C8: if L is in locations_for_orders({O}) then O is in
\* orders_for_locations({L}), for every location L and order O of the store.
C8_Adjoint ==
    \A o \in Order_instances : \A l \in Location_instances :
        l \in Names(Location_get_by_orders({o})) =>
            o \in Names(Order_get_by_locations({l}))

\* an order that reaches a location through an inventory that is not on the
\* latest date
C8_Witness ==
    \E o \in Order_instances : \E l \in Location_instances :
        /\ l \in Names(Location_get_by_orders({o}))
        /\ o \in Names(Order_get_by_locations({l}))
        /\ \E inv \in Inventory_instances :
              /\ Inventory[inv].has_location = l
              /\ \E other \in Inventory_instances :
                    Inventory[other].has_date > Inventory[inv].has_date

C10_DanglingInventoryRejected ==
    [][\A date_s \in DateStrs, location_id \in Locs, item_id \in ItemIds :
        (/\ Inventory_create(date_s, location_id, item_id)
         /\ convert_date(date_s).err = None
         /\ (search_one(location_id) = None \/ search_one(item_id) = None)) =>
            /\ lastOp'.err = "DanglingReference"
            /\ Inventory' = Inventory
            /\ Cardinality(DOMAIN Location') = Cardinality(DOMAIN Location)
            /\ Cardinality(Item') = Cardinality(Item)]_vars


\* C11: Inventory.create for a (date, location, item) triple that already has
\* an Inventory record is rejected with DuplicateKey and the record that was
\* there first is kept unchanged.
C11_DuplicateInventoryRejected ==
    [][\A date_s \in DateStrs, location_id \in Locs, item_id \in ItemIds :
        (/\ Inventory_create(date_s, location_id, item_id)
         /\ convert_date(date_s).err = None
         /\ ~convert_date(date_s).absent
         /\ <<convert_date(date_s).value, location_id, item_id>>
                \in Inventory_instances) =>
            /\ lastOp'.err = "DuplicateKey"
            /\ Inventory' = Inventory]_vars


\* The dicts of a parsed document with at most one inventory snapshot, handed
\* to calculate_frquencies several times
InitTwice ==
    /\ locations = [l \in Locs |-> 0]
    /\ freqBefore = locations
    /\ balanceKeys \in DistinctSeqs(Dates, 1)
    /\ balance \in [Dates -> [Locs -> ItemIds \cup {None}]]
    /\ \A d \in Dates :
          (d \in Range(balanceKeys)) <=> (\E l \in Locs : balance[d][l] # None)
    /\ orders \in UNION {[1..m -> [item_id : ItemIds, total_qty : Qtys]] : m \in 0..MaxOrders}
    /\ AggIdle
    /\ StoreEmpty

SpecTwice == InitTwice /\ [][NextAgg]_vars

\* C19: a second pass over unchanged data adds every contribution again: after
\* two passes each location's freq is exactly twice what the first pass, started
\* from 0, left there.
C19_SecondPassDoubles ==
    (passes = 2 /\ pc \in {"done", "error"}) =>
        \A l \in Locs : locations[l] = 2 * freqBefore[l]

\* two passes have returned and some location was credited
C19_Witness ==
    /\ passes = 2
    /\ pc = "done"
    /\ \E l \in Locs : freqBefore[l] # 0 /\ locations[l] = 2 * freqBefore[l]


\* ---- the store with Item.destroy_all and Order.destroy_all ----------------
\* the ontology after Location.create("L1", ...), everything else as imported
InitDestroy ==
    /\ Location = [l \in {"L1"} |-> 0]
    /\ Item = {}
    /\ ItemUnit = {}
    /\ Inventory = <<>>
    /\ Order = <<>>
    /\ OrderedItem = <<>>
    /\ checked = [t \in Tabs |-> {}]
    /\ lastOp = [op |-> "Location.create", err |-> None]
    /\ RestIdle
    /\ locations = <<>>
    /\ freqBefore = <<>>
    /\ balanceKeys = <<>>
    /\ balance = <<>>
    /\ orders = <<>>
    /\ AggIdle

NextDestroy ==
    \/ ItemUnitCreate
    \/ ItemCreate
    \/ InventoryInstance
    \/ OrderCreate
    \/ OrderAddItem
    \/ Item_destroy_all
    \/ Order_destroy_all

SpecDestroy == InitDestroy /\ [][NextDestroy]_vars

\* C12: right after Item.destroy_all the store holds no Item and no ItemUnit,
\* and right after Order.destroy_all it holds no Order and no OrderedItem,
\* whatever the store held before.
C12_DestroyAllCascades ==
    /\ lastOp.op = "Item.destroy_all" => Item = {} /\ ItemUnit = {}
    /\ lastOp.op = "Order.destroy_all" => Order = <<>> /\ OrderedItem = <<>>

\* Item.destroy_all ran on a store with an item, a packaging unit and an
\* ordered item that referred to the item
C12_Witness ==
    /\ lastOp.op = "Item.destroy_all"
    /\ lastOp.destroyed >= 2
    /\ Item = {}
    /\ ItemUnit = {}
    /\ \E x \in DOMAIN OrderedItem : OrderedItem[x] = None /\ x[2] \in ItemIds


\* ---- utils.py: convert_dim as a function of its arguments ----------------
\* the lengths handed to convert_dim
MaxDim == 9

\* unit strings of a sheet: recognised spellings in several cases, unknown
\* ones, the empty cell
UomStrs == {None, "", "m", "M", "meters", "Meters", "METERS", "dm", "DM", "Dm",
            "cm", "CM", "Cm", "mm", "MM", "Mm", "in", "IN", "km", "KM"}

InitUnits ==
    /\ conv_dim \in 0..MaxDim
    /\ conv_uom \in UomStrs
    /\ converted = [called |-> FALSE, err |-> None, value |-> 0]
    /\ ColorIdle
    /\ LoadIdle
    /\ SelIdle
    /\ Location = <<>>
    /\ Item = {}
    /\ ItemUnit = {}
    /\ Inventory = <<>>
    /\ Order = <<>>
    /\ OrderedItem = <<>>
    /\ checked = [t \in Tabs |-> {}]
    /\ lastOp = [op |-> "init"]
    /\ locations = <<>>
    /\ freqBefore = <<>>
    /\ balanceKeys = <<>>
    /\ balance = <<>>
    /\ orders = <<>>
    /\ AggIdle

ConvertDim ==
    /\ ~converted.called
    /\ converted' = convert_dim(conv_dim, conv_uom)
    /\ UNCHANGED <<conv_dim, conv_uom, ItemUnit, colorVars, loadVars, selVars>>
    /\ UNCHANGED <<aggVars, storeVars>>

NextUnits == ConvertDim

SpecUnits == InitUnits /\ [][NextUnits]_vars

\* the length unit a spelling names, letter case aside; None when it names none
UnitNamed(u) ==
    CASE u \in {"m", "M", "meters", "Meters", "METERS"} -> "meter"
      [] u \in {"dm", "DM", "Dm"} -> "decimeter"
      [] u \in {"cm", "CM", "Cm"} -> "centimeter"
      [] u \in {"mm", "MM", "Mm"} -> "millimeter"
      [] OTHER -> None

\* thousandths of a metre in one unit
MetreThousandths(unit) ==
    CASE unit = "meter" -> 1000 [] unit = "decimeter" -> 100
      [] unit = "centimeter" -> 10 [] unit = "millimeter" -> 1

\* C13: for a recognised length unit in any letter case convert_dim returns
\* value * factor (meter 1, decimeter 0.1, centimeter 0.01, millimeter 0.001);
\* for an unrecognised non-empty unit string it returns nothing and fails with
\* the invalid-unit error, which the code raises as KeyError.
C13_ConvertDim ==
    (converted.called /\ conv_uom # None /\ conv_uom # "") =>
        IF UnitNamed(conv_uom) # None
        THEN /\ converted.err = None
             /\ converted.value = conv_dim * MetreThousandths(UnitNamed(conv_uom))
        ELSE /\ converted.err = "KeyError"
             /\ converted.value = 0

\* an upper-case centimetre length was converted
C13_Witness ==
    /\ converted.called
    /\ conv_uom = "CM"
    /\ conv_dim = 7
    /\ converted.value = 70
    /\ converted.err = None


\* ---- heatmap.py: get_heatmap_color as a function of its argument ---------
\* line 24: the 256 RGB triples of the palette, byte by byte
VIRIDIS_COLORS == <<
    68, 1, 84, 68, 2, 85, 68, 3, 87, 69, 5, 88, 69, 6, 90, 69, 8, 91, 70, 9, 92, 70, 11, 94,
    70, 12, 95, 70, 14, 97, 71, 15, 98, 71, 17, 99, 71, 18, 101, 71, 20, 102, 71, 21, 103, 71, 22, 105,
    71, 24, 106, 72, 25, 107, 72, 26, 108, 72, 28, 110, 72, 29, 111, 72, 30, 112, 72, 32, 113, 72, 33, 114,
    72, 34, 115, 72, 35, 116, 71, 37, 117, 71, 38, 118, 71, 39, 119, 71, 40, 120, 71, 42, 121, 71, 43, 122,
    71, 44, 123, 70, 45, 124, 70, 47, 124, 70, 48, 125, 70, 49, 126, 69, 50, 127, 69, 52, 127, 69, 53, 128,
    69, 54, 129, 68, 55, 129, 68, 57, 130, 67, 58, 131, 67, 59, 131, 67, 60, 132, 66, 61, 132, 66, 62, 133,
    66, 64, 133, 65, 65, 134, 65, 66, 134, 64, 67, 135, 64, 68, 135, 63, 69, 135, 63, 71, 136, 62, 72, 136,
    62, 73, 137, 61, 74, 137, 61, 75, 137, 61, 76, 137, 60, 77, 138, 60, 78, 138, 59, 80, 138, 59, 81, 138,
    58, 82, 139, 58, 83, 139, 57, 84, 139, 57, 85, 139, 56, 86, 139, 56, 87, 140, 55, 88, 140, 55, 89, 140,
    54, 90, 140, 54, 91, 140, 53, 92, 140, 53, 93, 140, 52, 94, 141, 52, 95, 141, 51, 96, 141, 51, 97, 141,
    50, 98, 141, 50, 99, 141, 49, 100, 141, 49, 101, 141, 49, 102, 141, 48, 103, 141, 48, 104, 141, 47, 105, 141,
    47, 106, 141, 46, 107, 142, 46, 108, 142, 46, 109, 142, 45, 110, 142, 45, 111, 142, 44, 112, 142, 44, 113, 142,
    44, 114, 142, 43, 115, 142, 43, 116, 142, 42, 117, 142, 42, 118, 142, 42, 119, 142, 41, 120, 142, 41, 121, 142,
    40, 122, 142, 40, 122, 142, 40, 123, 142, 39, 124, 142, 39, 125, 142, 39, 126, 142, 38, 127, 142, 38, 128, 142,
    38, 129, 142, 37, 130, 142, 37, 131, 141, 36, 132, 141, 36, 133, 141, 36, 134, 141, 35, 135, 141, 35, 136, 141,
    35, 137, 141, 34, 137, 141, 34, 138, 141, 34, 139, 141, 33, 140, 141, 33, 141, 140, 33, 142, 140, 32, 143, 140,
    32, 144, 140, 32, 145, 140, 31, 146, 140, 31, 147, 139, 31, 148, 139, 31, 149, 139, 31, 150, 139, 30, 151, 138,
    30, 152, 138, 30, 153, 138, 30, 153, 138, 30, 154, 137, 30, 155, 137, 30, 156, 137, 30, 157, 136, 30, 158, 136,
    30, 159, 136, 30, 160, 135, 31, 161, 135, 31, 162, 134, 31, 163, 134, 32, 164, 133, 32, 165, 133, 33, 166, 133,
    33, 167, 132, 34, 167, 132, 35, 168, 131, 35, 169, 130, 36, 170, 130, 37, 171, 129, 38, 172, 129, 39, 173, 128,
    40, 174, 127, 41, 175, 127, 42, 176, 126, 43, 177, 125, 44, 177, 125, 46, 178, 124, 47, 179, 123, 48, 180, 122,
    50, 181, 122, 51, 182, 121, 53, 183, 120, 54, 184, 119, 56, 185, 118, 57, 185, 118, 59, 186, 117, 61, 187, 116,
    62, 188, 115, 64, 189, 114, 66, 190, 113, 68, 190, 112, 69, 191, 111, 71, 192, 110, 73, 193, 109, 75, 194, 108,
    77, 194, 107, 79, 195, 105, 81, 196, 104, 83, 197, 103, 85, 198, 102, 87, 198, 101, 89, 199, 100, 91, 200, 98,
    94, 201, 97, 96, 201, 96, 98, 202, 95, 100, 203, 93, 103, 204, 92, 105, 204, 91, 107, 205, 89, 109, 206, 88,
    112, 206, 86, 114, 207, 85, 116, 208, 84, 119, 208, 82, 121, 209, 81, 124, 210, 79, 126, 210, 78, 129, 211, 76,
    131, 211, 75, 134, 212, 73, 136, 213, 71, 139, 213, 70, 141, 214, 68, 144, 214, 67, 146, 215, 65, 149, 215, 63,
    151, 216, 62, 154, 216, 60, 157, 217, 58, 159, 217, 56, 162, 218, 55, 165, 218, 53, 167, 219, 51, 170, 219, 50,
    173, 220, 48, 175, 220, 46, 178, 221, 44, 181, 221, 43, 183, 221, 41, 186, 222, 39, 189, 222, 38, 191, 223, 36,
    194, 223, 34, 197, 223, 33, 199, 224, 31, 202, 224, 30, 205, 224, 29, 207, 225, 28, 210, 225, 27, 212, 225, 26,
    215, 226, 25, 218, 226, 24, 220, 226, 24, 223, 227, 24, 225, 227, 24, 228, 227, 24, 231, 228, 25, 233, 228, 25,
    236, 228, 26, 238, 229, 27, 241, 229, 28, 243, 229, 30, 246, 230, 31, 248, 230, 33, 250, 230, 34, 253, 231, 36>>

\* val is val_n / ValDen: steps of half a palette level
ValDen == 2 * 255

\* how far below 0 and above 1 the arguments go, in steps of 1 / ValDen
MaxOver == 520

\* int(x) for x = num / den, den > 0: the fraction is cut off, towards zero
int(num, den) == IF num >= 0 THEN num \div den ELSE 0 - ((0 - num) \div den)

\* bytes.__getitem__: a negative index counts from the end, an index outside
\* -len..len-1 raises IndexError
getitem_ok(bs, i) == 0 - Len(bs) <= i /\ i < Len(bs)

getitem(bs, i) == IF i >= 0 THEN bs[i + 1] ELSE bs[Len(bs) + i + 1]

HexDigits == <<"0", "1", "2", "3", "4", "5", "6", "7", "8", "9",
               "A", "B", "C", "D", "E", "F">>

\* format spec 02X on a byte
format_02X(byte) == <<HexDigits[(byte \div 16) + 1], HexDigits[(byte % 16) + 1]>>

\* get_heatmap_color, lines 29-31; the string is kept as its characters
get_heatmap_color(n) ==
    LET val == int(n * 255, ValDen)
    IN IF \A i \in 0..2 : getitem_ok(VIRIDIS_COLORS, 3 * val + i)
       THEN LET v == [i \in 0..2 |-> getitem(VIRIDIS_COLORS, 3 * val + i)]
            IN [called |-> TRUE, err |-> None,
                value |-> <<"#">> \o format_02X(v[0]) \o format_02X(v[1])
                                  \o format_02X(v[2])]
       ELSE [called |-> TRUE, err |-> "IndexError", value |-> <<>>]

InitColor ==
    /\ val_n \in (0 - MaxOver)..(ValDen + MaxOver)
    /\ color = [called |-> FALSE, err |-> None, value |-> <<>>]
    /\ UnitsIdle
    /\ LoadIdle
    /\ SelIdle
    /\ Location = <<>>
    /\ Item = {}
    /\ ItemUnit = {}
    /\ Inventory = <<>>
    /\ Order = <<>>
    /\ OrderedItem = <<>>
    /\ checked = [t \in Tabs |-> {}]
    /\ lastOp = [op |-> "init"]
    /\ locations = <<>>
    /\ freqBefore = <<>>
    /\ balanceKeys = <<>>
    /\ balance = <<>>
    /\ orders = <<>>
    /\ AggIdle

GetHeatmapColor ==
    /\ ~color.called
    /\ color' = get_heatmap_color(val_n)
    /\ UNCHANGED <<val_n, ItemUnit, unitVars, loadVars, selVars>>
    /\ UNCHANGED <<aggVars, storeVars>>

NextColor == GetHeatmapColor

SpecColor == InitColor /\ [][NextColor]_vars

\* the argument brought into [0, 1]
Clamped(n) == IF n < 0 THEN 0 ELSE IF n > ValDen THEN ValDen ELSE n

\* the palette entry of a level 0..255, as #RRGGBB
PaletteColor(level) ==
    <<"#">> \o format_02X(VIRIDIS_COLORS[3 * level + 1])
            \o format_02X(VIRIDIS_COLORS[3 * level + 2])
            \o format_02X(VIRIDIS_COLORS[3 * level + 3])

\* C14: for every input get_heatmap_color returns a '#' and six hex digits
\* taken from the 256-entry palette: the entry of level floor(value * 255) for
\* an input in [0, 1] (the first for 0.0, the last for 1.0), and for an input
\* outside [0, 1] the entry of the input clamped to [0, 1], without an error.
C14_ColorOfClampedLevel ==
    color.called =>
        /\ color.err = None
        /\ color.value = PaletteColor((Clamped(val_n) * 255) \div ValDen)

\* C14 for the inputs in [0, 1] only: the entry of level floor(value * 255)
C14_InRangeLevel ==
    (color.called /\ 0 <= val_n /\ val_n <= ValDen) =>
        /\ color.err = None
        /\ color.value = PaletteColor((val_n * 255) \div ValDen)


\* every item an order holds an ordered item for is answered with that order
AddedItemsFindTheirOrder ==
    \A o \in Order_instances : \A oi \in Order[o].has_ordered_items :
        oi[2] \in Item => o \in Names(Order_get_by_items({oi[2]}))

\* C17: Order.add_item extends the order's ordered items by one OrderedItem
\* named order_id-item_id that refers to the given item, and leaves the order's
\* direction, country, dates, line number and its earlier ordered items as they
\* were; after any Order.create and add_item calls the orders for {I} contain
\* the order for every item I added to it.
C17_AddItemExtendsOrder ==
    [][/\ \A id \in OrderIds, item_id \in ItemIds :
            Order_add_item(id, item_id) =>
                /\ Order'[id].has_ordered_items =
                       Order[id].has_ordered_items \cup {<<id, item_id>>}
                /\ Cardinality(Order'[id].has_ordered_items) =
                       Cardinality(Order[id].has_ordered_items) + 1
                /\ OrderedItem'[<<id, item_id>>] = item_id
                /\ Order'[id].has_direction = Order[id].has_direction
                /\ Order'[id].has_country = Order[id].has_country
                /\ Order'[id].has_delivery_date = Order[id].has_delivery_date
                /\ Order'[id].has_s_ship_date = Order[id].has_s_ship_date
                /\ Order'[id].has_a_ship_date = Order[id].has_a_ship_date
                /\ Order'[id].has_line_num = Order[id].has_line_num
                /\ \A oi \in Order[id].has_ordered_items \ {<<id, item_id>>} :
                       OrderedItem'[oi] = OrderedItem[oi]
       /\ AddedItemsFindTheirOrder']_vars

\* C17 for an item that exists and is not yet in the order: the order gains
\* exactly the ordered item order_id-item_id, which refers to the item, nothing
\* else of the order changes, and the orders for {item} contain the order.
C17_AddExistingNewItem ==
    [][\A id \in OrderIds, item_id \in ItemIds :
        (/\ Order_add_item(id, item_id)
         /\ item_id \in Item
         /\ <<id, item_id>> \notin Order[id].has_ordered_items) =>
            /\ Order'[id] = [Order[id] EXCEPT !.has_ordered_items =
                                @ \cup {<<id, item_id>>}]
            /\ Cardinality(Order'[id].has_ordered_items) =
                   Cardinality(Order[id].has_ordered_items) + 1
            /\ OrderedItem'[<<id, item_id>>] = item_id
            /\ \A oi \in Order[id].has_ordered_items :
                   OrderedItem'[oi] = OrderedItem[oi]
            /\ (id \in Names(Order_get_by_items({item_id})))']_vars


\* ---- view_controller.py: loading a document ------------------------------
\* number of load calls, the one of the constructor included
MaxLoads == 2

\* the parameters of heatmap.calculate_frquencies (locations, items, balance,
\* orders) and the arguments DataLoaderThread.run passes (locations, balance,
\* orders)
calculate_frquencies_params == 4

run_call_args == 3

\* ViewController.__init__ ends with self.load(...): progress_value is 0 and
\* the loader thread is started over the ontology as imported
InitLoad ==
    /\ Location = <<>>
    /\ Item = {}
    /\ ItemUnit = {}
    /\ Inventory = <<>>
    /\ Order = <<>>
    /\ OrderedItem = <<>>
    /\ checked = [t \in Tabs |-> {}]
    /\ lastOp = [op |-> "load", err |-> None]
    /\ loader = "parse"
    /\ progress_value = 0
    /\ storeAtLoad = StoreNow
    /\ loads = 1
    /\ UnitsIdle
    /\ ColorIdle
    /\ SelIdle
    /\ locations = <<>>
    /\ freqBefore = <<>>
    /\ balanceKeys = <<>>
    /\ balance = <<>>
    /\ orders = <<>>
    /\ AggIdle

\* parser.parse_document ingests one more row through the create method of
\* its class
ParseRow ==
    /\ loader = "parse"
    /\ lastOp.err = None
    /\ \/ LocationCreate
       \/ ItemCreate
       \/ InventoryCreate
       \/ OrderCreate
       \/ OrderAddItem

\* the exception of a create method leaves parse_document and run: the thread
\* ends, nothing is caught or undone
ParseRaise ==
    /\ loader = "parse"
    /\ lastOp.err # None
    /\ loader' = "raised"
    /\ UNCHANGED <<progress_value, storeAtLoad, loads>>
    /\ UNCHANGED <<aggVars, storeVars, ItemUnit, unitVars, colorVars, selVars>>

\* parse_document returns the four dicts
ParseReturn ==
    /\ loader = "parse"
    /\ lastOp.err = None
    /\ loader' = "parsed"
    /\ UNCHANGED <<progress_value, storeAtLoad, loads>>
    /\ UNCHANGED <<aggVars, storeVars, ItemUnit, unitVars, colorVars, selVars>>

\* line 37: the call binds three arguments to four parameters, Python raises
\* TypeError before the body of calculate_frquencies runs, and the thread ends
\* without reaching lines 38-39
RunCallAggRaises ==
    /\ loader = "parsed"
    /\ run_call_args # calculate_frquencies_params
    /\ loader' = "TypeError"
    /\ UNCHANGED <<progress_value, storeAtLoad, loads>>
    /\ UNCHANGED <<aggVars, storeVars, ItemUnit, unitVars, colorVars, selVars>>

\* ViewController.load, called again once the earlier thread has ended
Load ==
    /\ loader \in {"raised", "TypeError"}
    /\ loads < MaxLoads
    /\ progress_value' = 0
    /\ loader' = "parse"
    /\ storeAtLoad' = StoreNow
    /\ loads' = loads + 1
    /\ lastOp' = [op |-> "load", err |-> None]
    /\ UNCHANGED <<Location, Item, ItemUnit, Inventory, Order, OrderedItem, checked>>
    /\ UNCHANGED <<aggVars, unitVars, colorVars, selVars>>

NextLoad ==
    \/ ParseRow
    \/ ParseRaise
    \/ ParseReturn
    \/ RunCallAggRaises
    \/ Load

SpecLoad == InitLoad /\ [][NextLoad]_vars

\* run has ended, by returning or by an exception
LoaderEnded == loader \in {"raised", "TypeError"}

\* C16: when a load aborts with an ingestion error, the store is exactly what
\* it was before the load started: no entity the failed load created remains.
C16_FailedLoadRolledBack ==
    loader = "raised" => StoreNow = storeAtLoad

\* C18: every load whose file parses successfully completes: once the loader
\* thread has run, the new data is installed and progress_value is back at 1.
C18_ParsedLoadCompletes ==
    (LoaderEnded /\ loader # "raised") => progress_value = 1


\* ---- view_controller.py: selecting on the map ----------------------------
\* number of items of self.model; the idx values handed in run from -1 to it
MaxIdx == 2

Idxs == -1..MaxIdx

\* the list model's set_checked(names, control): with control the names are
\* checked in addition, without it they replace what was checked
set_checked_control(tab, names, control) ==
    IF control THEN [checked EXCEPT ![tab] = @ \cup names]
    ELSE set_checked(tab, names)

\* The map models as __init__ leaves them (no item) or as _load(data) fills
\* them: item idx stands for one location (3D) or a cluster of them (2D).
InitSel ==
    /\ model_names \in UNION {[0..(n - 1) -> NonEmptySubsets(Locs)] : n \in 0..MaxIdx}
    /\ selected_idxs = {}
    /\ sidebar_selected = {}
    /\ checked = [t \in Tabs |-> {}]
    /\ lastOp = [op |-> "init"]
    /\ Location = <<>>
    /\ Item = {}
    /\ ItemUnit = {}
    /\ Inventory = <<>>
    /\ Order = <<>>
    /\ OrderedItem = <<>>
    /\ UnitsIdle
    /\ ColorIdle
    /\ LoadIdle
    /\ locations = <<>>
    /\ freqBefore = <<>>
    /\ balanceKeys = <<>>
    /\ balance = <<>>
    /\ orders = <<>>
    /\ AggIdle

\* ViewController.reset_selection
reset_selection == {}

\* ViewController.select_item. idx is added before self.model._get_idx(idx)
\* is asked for the names; for an idx the model has no item at, that lookup
\* raises and the two set_... calls are not reached.
select_item(idx, control) ==
    LET cleared == IF ~control THEN reset_selection ELSE selected_idxs
    IN /\ IF idx >= 0
          THEN /\ selected_idxs' = cleared \cup {idx}
               /\ IF idx \in DOMAIN model_names
                  THEN /\ checked' = set_checked_control("location",
                                                         model_names[idx], control)
                       /\ sidebar_selected' = model_names[idx]
                       /\ lastOp' = [op |-> "select_item", err |-> None]
                  ELSE /\ UNCHANGED <<checked, sidebar_selected>>
                       /\ lastOp' = [op |-> "select_item", err |-> "IndexError"]
          ELSE /\ selected_idxs' = cleared
               /\ checked' = set_checked("location", {})
               /\ sidebar_selected' = {}
               /\ lastOp' = [op |-> "select_item", err |-> None]
       /\ UNCHANGED model_names
       /\ UNCHANGED <<Location, Item, ItemUnit, Inventory, Order, OrderedItem>>
       /\ UNCHANGED <<aggVars, unitVars, colorVars, loadVars>>

SelectItem == \E idx \in Idxs, control \in BOOLEAN : select_item(idx, control)

\* the reset_selection slot called on its own
ResetSelection ==
    /\ selected_idxs # {}
    /\ selected_idxs' = reset_selection
    /\ lastOp' = [op |-> "reset_selection", err |-> None]
    /\ UNCHANGED <<model_names, sidebar_selected, checked>>
    /\ UNCHANGED <<Location, Item, ItemUnit, Inventory, Order, OrderedItem>>
    /\ UNCHANGED <<aggVars, unitVars, colorVars, loadVars>>

NextSel ==
    \/ SelectItem
    \/ ResetSelection

SpecSel == InitSel /\ [][NextSel]_vars

\* C20: select_item with control=False and idx >= 0 makes the selection
\* exactly {idx}; with control=True and idx >= 0 it makes it the previous
\* selection plus idx; with idx < 0 and control=False it empties it; and
\* whenever select_item clears the location tab's checked set, selected_idxs
\* is empty as well.
C20_SelectionFollowsTab ==
    [][\A idx \in Idxs, control \in BOOLEAN :
        select_item(idx, control) =>
            /\ (~control /\ idx >= 0) => selected_idxs' = {idx}
            /\ (control /\ idx >= 0) => selected_idxs' = selected_idxs \cup {idx}
            /\ (~control /\ idx < 0) => selected_idxs' = {}
            /\ (checked["location"] # {} /\ checked'["location"] = {}) =>
                   selected_idxs' = {}]_vars

\* the three cases of C20 that set selected_idxs
C20_SelectionCases ==
    [][\A idx \in Idxs, control \in BOOLEAN :
        select_item(idx, control) =>
            /\ (~control /\ idx >= 0) => selected_idxs' = {idx}
            /\ (control /\ idx >= 0) => selected_idxs' = selected_idxs \cup {idx}
            /\ (~control /\ idx < 0) => selected_idxs' = {}]_vars

====
